---- MODULE Spec2Model ----
(***************************************************************************)
(* Model of the Empress RAG API gateway (fastapi_app.py).                  *)
(*                                                                         *)
(* The gateway owns four POST endpoints and GET /health.  Each POST        *)
(* endpoint takes a request body validated against a Pydantic schema,      *)
(* calls one function of the external rag_pipeline module inside a         *)
(* try/except Exception block, builds a response record from the result    *)
(* and converts any exception raised inside the try block into             *)
(* HTTPException(status_code=500, detail=<prefix> + str(e)).               *)
(*                                                                         *)
(* The pipeline is external: what it returns or raises is an input, drawn  *)
(* from bounded sets.  A handler is modelled in two steps, split at the    *)
(* one point where control leaves the gateway (the pipeline call), so that *)
(* other requests and health probes can be observed while a call is        *)
(* outstanding.                                                            *)
(***************************************************************************)
EXTENDS Integers, Sequences, FiniteSets, TLC

VARIABLES
    pc,        \* per request: "idle", "received", "validated", "calling", "done"
    req,       \* per request: the endpoint path and the body's field
    calls,     \* per request: the pipeline calls made for it, in order
    outcome,   \* per request: what its pipeline call returned or raised
    resp,      \* per request: the HTTP response produced
    health,    \* the payload of the last GET /health, NoHealth before the first
    healthCount, \* number of GET /health served
    probeCtx   \* history: what the POST requests were doing at the last GET /health

vars == <<pc, req, calls, outcome, resp, health, healthCount, probeCtx>>

(***************************************************************************)
(* Bounds.                                                                 *)
(***************************************************************************)
NumReqs == 1        \* requests of Spec (full input space)
NumConcReqs == 2    \* concurrently handled requests of SpecConc
MaxDocs == 2        \* longest retrieved_documents sequence
MaxHealth == 1      \* GET /health probes

Reqs == 1..NumReqs
ConcReqs == 1..NumConcReqs

(***************************************************************************)
(* JSON / Python values.  Every value has the same record shape so that    *)
(* values of different Python types can be compared: t is the type tag,    *)
(* s the text (for "text"), l the elements (for "list").  "missing" is an  *)
(* absent key or field, "null" is None.                                    *)
(***************************************************************************)
Text(s) == [t |-> "text", s |-> s, l |-> <<>>]
List(l) == [t |-> "list", s |-> "", l |-> l]
Null == [t |-> "null", s |-> "", l |-> <<>>]
Missing == [t |-> "missing", s |-> "", l |-> <<>>]

(***************************************************************************)
(* Routes and their pipeline functions.                                    *)
(***************************************************************************)
Endpoints == {"/qa", "/doctor-matching", "/affirmations", "/product-recommendations"}

\* The rag_pipeline function each endpoint's handler calls.
PipelineFn(ep) ==
    CASE ep = "/qa" -> "chatbot_qa"
      [] ep = "/doctor-matching" -> "doctor_symptoms_matching"
      [] ep = "/affirmations" -> "affirmation_recommendation"
      [] ep = "/product-recommendations" -> "product_recommendation"

\* The single field of each request schema.
RequestField(ep) ==
    CASE ep = "/qa" -> "query"
      [] ep = "/doctor-matching" -> "symptoms"
      [] ep = "/affirmations" -> "categories"
      [] ep = "/product-recommendations" -> "user_input"

\* The declared type of that field: str, or List[str] for categories.
FieldType(ep) == IF ep = "/affirmations" THEN "list" ELSE "text"

\* Variant of ValidBody: only the field's presence is checked, not its type.
ValidBody_PresenceOnly(ep, body) == body.t # "missing"

\* Request-schema validation: the field is present and of the declared type.
ValidBody(ep, body) == body.t = FieldType(ep)

\* The fields of each response schema.
ResponseSchema(ep) ==
    CASE ep = "/qa" -> {"response", "retrieved_documents_count"}
      [] ep = "/doctor-matching" -> {"response", "retrieved_documents_count"}
      [] ep = "/affirmations" -> {"response", "affirmations", "retrieved_documents_count"}
      [] ep = "/product-recommendations" -> {"response", "products", "retrieved_documents_count"}

\* The name of each response schema, as it appears in a ValidationError.
ResponseModel(ep) ==
    CASE ep = "/qa" -> "QAResponse"
      [] ep = "/doctor-matching" -> "DoctorMatchingResponse"
      [] ep = "/affirmations" -> "AffirmationResponse"
      [] ep = "/product-recommendations" -> "ProductRecommendationResponse"

(***************************************************************************)
(* Exceptions.  A fault is its class and its description str(e).  Every    *)
(* class below derives from Exception.                                     *)
(***************************************************************************)
ExceptionKinds == {"RuntimeError", "KeyError", "TypeError", "ValidationError", "HTTPException"}

Fault(kind, desc) == [kind |-> kind, desc |-> desc]
NoFault == Fault("none", "")

\* str(KeyError(key)) is the repr of the key.
KeyError(key) == Fault("KeyError", "'" \o key \o "'")

\* len(None)
LenTypeError == Fault("TypeError", "object of type 'NoneType' has no len()")

\* str() of a Pydantic ValidationError starts with the error count and the
\* model's name; the per-field lines that follow are left out.
ValidationError(n, model) ==
    Fault("ValidationError",
          (IF n = 1 THEN "1 validation error for " ELSE "2 validation errors for ") \o model)

(***************************************************************************)
(* HTTP responses, all of one record shape.  kind is "none" (no response   *)
(* yet), "success", "error" (a JSON body {"detail": ...}) or "unhandled"   *)
(* (an exception that left the handler).                                   *)
(***************************************************************************)
Response(kind, status, fields, response, list, count, detail) ==
    [kind |-> kind, status |-> status, fields |-> fields, response |-> response,
     list |-> list, count |-> count, detail |-> detail]

NoResp == Response("none", 0, {}, "", <<>>, 0, Missing)

\* raise HTTPException(status_code=..., detail=...): the framework answers
\* with that status and the body {"detail": detail}.
HTTPException(status, detail) ==
    Response("error", status, {"detail"}, "", <<>>, 0, Text(detail))

\* An exception no except clause caught.
Unhandled == Response("unhandled", 500, {}, "", <<>>, 0, Missing)

\* The framework's answer to a body that fails the request schema: status
\* 422 and a detail that is a list of errors, one per failing field.
RequestValidationError(ep) ==
    Response("error", 422, {"detail"}, "", <<>>, 0, List(<<RequestField(ep)>>))

(***************************************************************************)
(* Evaluation of a try block: it raised a fault or produced a value.       *)
(***************************************************************************)
Raise(f) == [raised |-> TRUE, fault |-> f, value |-> NoResp]
Return(v) == [raised |-> FALSE, fault |-> NoFault, value |-> v]

\* Field validation of the response schemas.
IsStr(v) == v.t = "text"
IsListOfStr(v) == v.t = "list"

\* Variant of QAResponse: the count records only whether any document came back.
QAResponse_TruthyCount(response, count) ==
    IF response.t = "text"
    THEN [raised |-> FALSE, fault |-> NoFault,
          value |-> Response("success", 200, {"response", "retrieved_documents_count"},
                             response.s, <<>>, IF count > 0 THEN 1 ELSE 0, Missing)]
    ELSE [raised |-> TRUE, fault |-> ValidationError(1, "QAResponse"), value |-> NoResp]

\* QAResponse(response=..., retrieved_documents_count=...)
QAResponse(response, count) ==
    IF IsStr(response)
    THEN Return(Response("success", 200, {"response", "retrieved_documents_count"},
                         response.s, <<>>, count, Missing))
    ELSE Raise(ValidationError(1, "QAResponse"))

\* DoctorMatchingResponse(response=..., retrieved_documents_count=...)
DoctorMatchingResponse(response, count) ==
    IF IsStr(response)
    THEN Return(Response("success", 200, {"response", "retrieved_documents_count"},
                         response.s, <<>>, count, Missing))
    ELSE Raise(ValidationError(1, "DoctorMatchingResponse"))

\* AffirmationResponse(response=..., affirmations=..., retrieved_documents_count=...)
AffirmationResponse(response, affirmations, count) ==
    LET n == (IF IsStr(response) THEN 0 ELSE 1) + (IF IsListOfStr(affirmations) THEN 0 ELSE 1)
    IN  IF n = 0
        THEN Return(Response("success", 200,
                             {"response", "affirmations", "retrieved_documents_count"},
                             response.s, affirmations.l, count, Missing))
        ELSE Raise(ValidationError(n, "AffirmationResponse"))

\* ProductRecommendationResponse(response=..., products=..., retrieved_documents_count=...)
ProductRecommendationResponse(response, products, count) ==
    LET n == (IF IsStr(response) THEN 0 ELSE 1) + (IF IsListOfStr(products) THEN 0 ELSE 1)
    IN  IF n = 0
        THEN Return(Response("success", 200,
                             {"response", "products", "retrieved_documents_count"},
                             response.s, products.l, count, Missing))
        ELSE Raise(ValidationError(n, "ProductRecommendationResponse"))

(***************************************************************************)
(* Pipeline results: a mapping whose keys may be absent (Missing).         *)
(***************************************************************************)
Result(response, docs, affirmations, products) ==
    [response |-> response, retrieved_documents |-> docs,
     affirmations |-> affirmations, products |-> products]

NoResult == Result(Missing, Missing, Missing, Missing)

\* The outcome of a pipeline call.
Returned(result) == [t |-> "returned", result |-> result, fault |-> NoFault]
Raised(fault) == [t |-> "raised", result |-> NoResult, fault |-> fault]
NoOutcome == [t |-> "none", result |-> NoResult, fault |-> NoFault]

\* result[key]: the value, or KeyError when the key is absent.
HasKey(result, key) == result[key].t # "missing"

\* Variant of Get: result.get(key), with no default.
Get_NoDefault(result, key) == IF result[key].t # "missing" THEN result[key] ELSE Null

\* result.get(key, []): the value, or the empty list when the key is absent.
Get(result, key) == IF HasKey(result, key) THEN result[key] ELSE List(<<>>)

\* len(x) is defined for a sequence and raises TypeError for None.
Sized(v) == v.t = "list"

\* Variant of Caught: the except clause names only what the pipeline raises.
Caught_PipelineFaultsOnly(f) == f.kind \in {"RuntimeError", "HTTPException"}

\* except Exception as e
Caught(f) == f.kind \in ExceptionKinds

(***************************************************************************)
(* The four handlers, from the outcome o of the pipeline call to the HTTP  *)
(* response.  Keyword arguments are evaluated left to right, so the first  *)
(* absent key decides which KeyError is raised.                            *)
(***************************************************************************)
qa_endpoint(o) ==
    LET try ==
          IF o.t = "raised" THEN Raise(o.fault)
          ELSE IF ~HasKey(o.result, "response") THEN Raise(KeyError("response"))
          ELSE IF ~HasKey(o.result, "retrieved_documents")
               THEN Raise(KeyError("retrieved_documents"))
          ELSE IF ~Sized(o.result.retrieved_documents) THEN Raise(LenTypeError)
          ELSE QAResponse(o.result.response, Len(o.result.retrieved_documents.l))
    IN  IF ~try.raised THEN try.value
        ELSE IF Caught(try.fault)
             THEN HTTPException(500, "Error processing Q&A request: " \o try.fault.desc)
             ELSE Unhandled

\* Variant of doctor_matching_endpoint: the except clause of qa_endpoint, copied.
doctor_matching_endpoint_QAPrefix(o) ==
    LET try ==
          IF o.t = "raised" THEN Raise(o.fault)
          ELSE IF ~HasKey(o.result, "response") THEN Raise(KeyError("response"))
          ELSE IF ~HasKey(o.result, "retrieved_documents")
               THEN Raise(KeyError("retrieved_documents"))
          ELSE IF ~Sized(o.result.retrieved_documents) THEN Raise(LenTypeError)
          ELSE DoctorMatchingResponse(o.result.response,
                                      Len(o.result.retrieved_documents.l))
    IN  IF ~try.raised THEN try.value
        ELSE IF Caught(try.fault)
             THEN HTTPException(500, "Error processing Q&A request: " \o try.fault.desc)
             ELSE Unhandled

doctor_matching_endpoint(o) ==
    LET try ==
          IF o.t = "raised" THEN Raise(o.fault)
          ELSE IF ~HasKey(o.result, "response") THEN Raise(KeyError("response"))
          ELSE IF ~HasKey(o.result, "retrieved_documents")
               THEN Raise(KeyError("retrieved_documents"))
          ELSE IF ~Sized(o.result.retrieved_documents) THEN Raise(LenTypeError)
          ELSE DoctorMatchingResponse(o.result.response,
                                      Len(o.result.retrieved_documents.l))
    IN  IF ~try.raised THEN try.value
        ELSE IF Caught(try.fault)
             THEN HTTPException(500, "Error processing doctor matching request: "
                                          \o try.fault.desc)
             ELSE Unhandled

affirmations_endpoint(o) ==
    LET try ==
          IF o.t = "raised" THEN Raise(o.fault)
          ELSE IF ~HasKey(o.result, "response") THEN Raise(KeyError("response"))
          ELSE IF ~HasKey(o.result, "retrieved_documents")
               THEN Raise(KeyError("retrieved_documents"))
          ELSE IF ~Sized(o.result.retrieved_documents) THEN Raise(LenTypeError)
          ELSE AffirmationResponse(o.result.response,
                                   Get(o.result, "affirmations"),
                                   Len(o.result.retrieved_documents.l))
    IN  IF ~try.raised THEN try.value
        ELSE IF Caught(try.fault)
             THEN HTTPException(500, "Error processing affirmation request: "
                                          \o try.fault.desc)
             ELSE Unhandled

product_recommendations_endpoint(o) ==
    LET try ==
          IF o.t = "raised" THEN Raise(o.fault)
          ELSE IF ~HasKey(o.result, "response") THEN Raise(KeyError("response"))
          ELSE IF ~HasKey(o.result, "retrieved_documents")
               THEN Raise(KeyError("retrieved_documents"))
          ELSE IF ~Sized(o.result.retrieved_documents) THEN Raise(LenTypeError)
          ELSE ProductRecommendationResponse(o.result.response,
                                             Get(o.result, "products"),
                                             Len(o.result.retrieved_documents.l))
    IN  IF ~try.raised THEN try.value
        ELSE IF Caught(try.fault)
             THEN HTTPException(500, "Error processing product recommendation request: "
                                          \o try.fault.desc)
             ELSE Unhandled

\* Route table: the handler registered for each path.
Handler(ep, o) ==
    CASE ep = "/qa" -> qa_endpoint(o)
      [] ep = "/doctor-matching" -> doctor_matching_endpoint(o)
      [] ep = "/affirmations" -> affirmations_endpoint(o)
      [] ep = "/product-recommendations" -> product_recommendations_endpoint(o)

\* Variant of health_check: the probe reports a failed pipeline call.
health_check_PipelineAware ==
    IF \E r \in DOMAIN outcome : outcome[r].t = "raised"
    THEN [status |-> "unhealthy", message |-> "Empress RAG API is running"]
    ELSE [status |-> "healthy", message |-> "Empress RAG API is running"]

\* GET /health
health_check == [status |-> "healthy", message |-> "Empress RAG API is running"]
NoHealth == [status |-> "none", message |-> ""]

(***************************************************************************)
(* Inputs: request bodies, pipeline results and pipeline faults.           *)
(***************************************************************************)
Request(ep, body) == [ep |-> ep, body |-> body]
NoRequest == Request("none", Missing)

\* The body's field: absent, null, a text or a list of text.
Bodies == {Missing, Null, Text(""), Text("hot flashes"),
           List(<<>>), List(<<"confidence">>)}

\* retrieved_documents of every length up to MaxDocs.
DocLists == {List([i \in 1..k |-> "doc"]) : k \in 0..MaxDocs}

ResponseValues == {Missing, Null, Text(""), Text("It is...")}
DocValues == {Missing, Null} \cup DocLists
OptionalValues == {Missing, Null, List(<<>>), List(<<"a1">>)}

\* What the endpoint's pipeline function may return: any combination of the
\* keys the handler reads.
Results(ep) ==
    CASE ep = "/affirmations" ->
           {Result(r, d, x, Missing) :
              r \in ResponseValues, d \in DocValues, x \in OptionalValues}
      [] ep = "/product-recommendations" ->
           {Result(r, d, Missing, x) :
              r \in ResponseValues, d \in DocValues, x \in OptionalValues}
      [] OTHER ->
           {Result(r, d, Missing, Missing) : r \in ResponseValues, d \in DocValues}

\* What a pipeline function may raise.
Faults == {Fault(k, d) : k \in {"RuntimeError", "KeyError", "HTTPException"},
                         d \in {"", "index unavailable"}}

\* The narrower inputs of the concurrent specification.
ConcBodies == {Missing, Text("hot flashes"), List(<<"confidence">>)}

ConcResults(ep) ==
    {Result(Text("It is..."), List(<<"doc">>), Missing, Missing),
     Result(Text("Here are some"), List(<<>>),
            IF ep = "/affirmations" THEN List(<<"a1">>) ELSE Missing,
            IF ep = "/product-recommendations" THEN List(<<"a1">>) ELSE Missing),
     Result(Missing, List(<<>>), Missing, Missing)}

ConcFaults == {Fault("RuntimeError", "index unavailable")}

(***************************************************************************)
(* Actions.                                                                *)
(***************************************************************************)
\* A POST to path ep with the given body arrives as request r.
Receive(r, ep, body) ==
    /\ pc[r] = "idle"
    /\ req' = [req EXCEPT ![r] = Request(ep, body)]
    /\ pc' = [pc EXCEPT ![r] = "received"]
    /\ UNCHANGED <<calls, outcome, resp, health, healthCount, probeCtx>>

\* The body is validated against the handler's request schema before the
\* handler runs; a body that fails is answered without running the handler.
Validate(r) ==
    /\ pc[r] = "received"
    /\ IF ValidBody(req[r].ep, req[r].body)
       THEN /\ pc' = [pc EXCEPT ![r] = "validated"]
            /\ resp' = resp
       ELSE /\ pc' = [pc EXCEPT ![r] = "done"]
            /\ resp' = [resp EXCEPT ![r] = RequestValidationError(req[r].ep)]
    /\ UNCHANGED <<req, calls, outcome, health, healthCount, probeCtx>>

\* The handler starts: it calls its pipeline function with the request's field.
CallPipeline(r) ==
    /\ pc[r] = "validated"
    /\ calls' = [calls EXCEPT ![r] =
                   Append(@, [fn |-> PipelineFn(req[r].ep), arg |-> req[r].body])]
    /\ pc' = [pc EXCEPT ![r] = "calling"]
    /\ UNCHANGED <<req, outcome, resp, health, healthCount, probeCtx>>

\* Variant of PipelineReturns: the result is kept in one module-level slot per
\* endpoint, so a finished request of the same endpoint sees the new result.
PipelineReturns_SharedResult(r, result) ==
    /\ pc[r] = "calling"
    /\ outcome' = [outcome EXCEPT ![r] = Returned(result)]
    /\ resp' = [s \in DOMAIN resp |->
                  IF s = r \/ (pc[s] = "done" /\ req[s].ep = req[r].ep
                               /\ resp[s].kind = "success")
                  THEN Handler(req[r].ep, Returned(result))
                  ELSE resp[s]]
    /\ pc' = [pc EXCEPT ![r] = "done"]
    /\ UNCHANGED <<req, calls, health, healthCount, probeCtx>>

\* The pipeline call returns and the handler runs to its end.
PipelineReturns(r, result) ==
    /\ pc[r] = "calling"
    /\ outcome' = [outcome EXCEPT ![r] = Returned(result)]
    /\ resp' = [resp EXCEPT ![r] = Handler(req[r].ep, Returned(result))]
    /\ pc' = [pc EXCEPT ![r] = "done"]
    /\ UNCHANGED <<req, calls, health, healthCount, probeCtx>>

\* Variant of PipelineRaises: the first fault is followed by one retry.
PipelineRaises_Retry(r, fault) ==
    /\ pc[r] = "calling"
    /\ outcome' = [outcome EXCEPT ![r] = Raised(fault)]
    /\ IF Len(calls[r]) < 2
       THEN /\ pc' = [pc EXCEPT ![r] = "validated"]
            /\ resp' = resp
       ELSE /\ pc' = [pc EXCEPT ![r] = "done"]
            /\ resp' = [resp EXCEPT ![r] = Handler(req[r].ep, Raised(fault))]
    /\ UNCHANGED <<req, calls, health, healthCount, probeCtx>>

\* The pipeline call raises and the handler runs to its end.
PipelineRaises(r, fault) ==
    /\ pc[r] = "calling"
    /\ outcome' = [outcome EXCEPT ![r] = Raised(fault)]
    /\ resp' = [resp EXCEPT ![r] = Handler(req[r].ep, Raised(fault))]
    /\ pc' = [pc EXCEPT ![r] = "done"]
    /\ UNCHANGED <<req, calls, health, healthCount, probeCtx>>

\* GET /health is served.
HealthCheck ==
    /\ healthCount < MaxHealth
    /\ health' = health_check
    /\ healthCount' = healthCount + 1
    /\ probeCtx' = [calling |-> \E r \in DOMAIN pc : pc[r] = "calling",
                    faulted |-> \E r \in DOMAIN pc : outcome[r].t = "raised"]
    /\ UNCHANGED <<pc, req, calls, outcome, resp>>

(***************************************************************************)
(* Specifications.  Spec handles NumReqs requests over the full input      *)
(* space; SpecConc interleaves NumConcReqs requests and health probes.     *)
(***************************************************************************)
InitOver(R) ==
    /\ pc = [r \in R |-> "idle"]
    /\ req = [r \in R |-> NoRequest]
    /\ calls = [r \in R |-> <<>>]
    /\ outcome = [r \in R |-> NoOutcome]
    /\ resp = [r \in R |-> NoResp]
    /\ health = NoHealth
    /\ healthCount = 0
    /\ probeCtx = [calling |-> FALSE, faulted |-> FALSE]

Init == InitOver(Reqs)

Next ==
    \E r \in Reqs :
        \/ \E ep \in Endpoints, body \in Bodies : Receive(r, ep, body)
        \/ Validate(r)
        \/ CallPipeline(r)
        \/ \E result \in Results(req[r].ep) : PipelineReturns(r, result)
        \/ \E fault \in Faults : PipelineRaises(r, fault)

Spec == Init /\ [][Next]_vars

InitConc == InitOver(ConcReqs)

NextConc ==
    \/ \E r \in ConcReqs :
        \/ \E ep \in Endpoints, body \in ConcBodies : Receive(r, ep, body)
        \/ Validate(r)
        \/ CallPipeline(r)
        \/ \E result \in ConcResults(req[r].ep) : PipelineReturns(r, result)
        \/ \E fault \in ConcFaults : PipelineRaises(r, fault)
    \/ HealthCheck

SpecConc == InitConc /\ [][NextConc]_vars

(***************************************************************************)
(* The documented contract, as tables independent of the handlers.         *)
(***************************************************************************)
AllReqs == DOMAIN pc

\* The documented error prefix of each endpoint.
FixedPrefix(ep) ==
    CASE ep = "/qa" -> "Error processing Q&A request: "
      [] ep = "/doctor-matching" -> "Error processing doctor matching request: "
      [] ep = "/affirmations" -> "Error processing affirmation request: "
      [] ep = "/product-recommendations" -> "Error processing product recommendation request: "

\* The documented pipeline function of each endpoint.
OwnPipelineFn(ep) ==
    CASE ep = "/qa" -> "chatbot_qa"
      [] ep = "/doctor-matching" -> "doctor_symptoms_matching"
      [] ep = "/affirmations" -> "affirmation_recommendation"
      [] ep = "/product-recommendations" -> "product_recommendation"

\* Endpoints whose response has a list field, and the result key it is read from.
ListEndpoints == {"/affirmations", "/product-recommendations"}
OptionalKey(ep) == IF ep = "/affirmations" THEN "affirmations" ELSE "products"

Done(r) == pc[r] = "done"
ReturnedFor(r) == Done(r) /\ outcome[r].t = "returned"
RaisedFor(r) == Done(r) /\ outcome[r].t = "raised"

\* The documented request schemas: categories is a sequence of text, the
\* other three fields are text.  A body is structurally valid when the field
\* is present and of that type.
StructurallyValid(ep, body) ==
    IF ep = "/affirmations" THEN body.t = "list" ELSE body.t = "text"
ValidRequest(r) == pc[r] # "idle" /\ StructurallyValid(req[r].ep, req[r].body)
InvalidRequest(r) == pc[r] # "idle" /\ ~StructurallyValid(req[r].ep, req[r].body)

\* The result has a text response and a sequence of documents.
TextAndDocs(r) ==
    /\ outcome[r].result.response.t = "text"
    /\ outcome[r].result.retrieved_documents.t = "list"

\* The endpoint's optional list key is absent or a sequence of text.
OptionalWellFormed(r) ==
    req[r].ep \in ListEndpoints =>
        outcome[r].result[OptionalKey(req[r].ep)].t \in {"missing", "list"}

\* The success body carries the pipeline's response and the document count.
SuccessWithCount(r) ==
    /\ resp[r].kind = "success"
    /\ resp[r].response = outcome[r].result.response.s
    /\ resp[r].count = Len(outcome[r].result.retrieved_documents.l)

\* The error body is HTTP 500 with the endpoint's prefix followed by d.
Prefixed500(r, d) ==
    /\ resp[r].kind = "error"
    /\ resp[r].status = 500
    /\ resp[r].detail = Text(FixedPrefix(req[r].ep) \o d)

(***************************************************************************)
(* C1                                                                      *)
(***************************************************************************)
\* C1 as stated: whenever the pipeline returns a text response and a
\* sequence of k documents, the endpoint answers with a success body whose
\* retrieved_documents_count is k and whose response is the pipeline's.
C1_Original ==
    \A r \in AllReqs : (ReturnedFor(r) /\ TextAndDocs(r)) => SuccessWithCount(r)

\* C1 (amended): the same, provided that on /affirmations and
\* /product-recommendations the affirmations/products key of the result is
\* absent or a sequence of text.
C1_CountEqualsLength ==
    \A r \in AllReqs :
        (ReturnedFor(r) /\ TextAndDocs(r) /\ OptionalWellFormed(r)) => SuccessWithCount(r)

C1_Witness ==
    \E r \in AllReqs :
        /\ ReturnedFor(r) /\ TextAndDocs(r) /\ req[r].ep = "/qa"
        /\ Len(outcome[r].result.retrieved_documents.l) = 2
        /\ resp[r].kind = "success" /\ resp[r].count = 2

(***************************************************************************)
(* C2                                                                      *)
(***************************************************************************)
\* C2: when the pipeline call raises a fault with description d, the
\* endpoint answers with HTTP 500 and detail = its own fixed prefix followed
\* by d, whatever the fault's class, and never another endpoint's prefix.
C2_FaultBecomes500 ==
    \A r \in AllReqs :
        RaisedFor(r) =>
            /\ Prefixed500(r, outcome[r].fault.desc)
            /\ \A e \in Endpoints \ {req[r].ep} :
                   resp[r].detail # Text(FixedPrefix(e) \o outcome[r].fault.desc)

C2_Witness ==
    \E r \in AllReqs :
        /\ RaisedFor(r) /\ req[r].ep = "/doctor-matching"
        /\ outcome[r].fault = Fault("HTTPException", "index unavailable")
        /\ resp[r].status = 500
        /\ resp[r].detail =
               Text("Error processing doctor matching request: index unavailable")

(***************************************************************************)
(* C3                                                                      *)
(***************************************************************************)
MissingExpectedKey(r) ==
    \/ outcome[r].result.response.t = "missing"
    \/ outcome[r].result.retrieved_documents.t = "missing"

\* C3: when the pipeline returns a result without the response key or
\* without the retrieved_documents key, the request ends with HTTP 500 and
\* the endpoint's prefix (followed by the KeyError's text); it is neither a
\* success nor an unhandled failure.
C3_MissingKeyBecomes500 ==
    \A r \in AllReqs :
        (ReturnedFor(r) /\ MissingExpectedKey(r)) =>
            \E key \in {"response", "retrieved_documents"} :
                /\ outcome[r].result[key].t = "missing"
                /\ Prefixed500(r, "'" \o key \o "'")

C3_Witness ==
    \E r \in AllReqs :
        /\ ReturnedFor(r) /\ req[r].ep = "/affirmations"
        /\ outcome[r].result.response.t = "text"
        /\ outcome[r].result.retrieved_documents.t = "missing"
        /\ resp[r].detail = Text("Error processing affirmation request: 'retrieved_documents'")

(***************************************************************************)
(* C4                                                                      *)
(***************************************************************************)
OptionalOmitted(r) ==
    /\ req[r].ep \in ListEndpoints
    /\ outcome[r].result[OptionalKey(req[r].ep)].t = "missing"

\* The same result with the optional key present and empty.
WithEmptyList(ep, result) == [result EXCEPT ![OptionalKey(ep)] = List(<<>>)]

C5_InvalidBodyRejectedBeforePipeline ==
    \A r \in AllReqs :
        /\ InvalidRequest(r) =>
               /\ calls[r] = <<>>
               /\ outcome[r] = NoOutcome
               /\ pc[r] \in {"received", "done"}
               /\ Done(r) => /\ resp[r].kind = "error"
                             /\ resp[r].status >= 400 /\ resp[r].status <= 499
        /\ calls[r] # <<>> => ValidRequest(r)

C5_Witness ==
    \E r \in AllReqs :
        /\ Done(r) /\ req[r].ep = "/qa" /\ req[r].body.t = "list"
        /\ resp[r].status = 422 /\ calls[r] = <<>>

(***************************************************************************)
(* C6                                                                      *)
(***************************************************************************)
\* C6: for a valid request, by the time its response is produced exactly one
\* pipeline call has been made for it: to the endpoint's own function, with
\* the request's field unchanged; at no time are there two, whether the call
\* returns or raises.
C6_ExactlyOneCall ==
    \A r \in AllReqs :
        /\ Len(calls[r]) <= 1
        /\ (ValidRequest(r) /\ pc[r] \in {"calling", "done"}) =>
               calls[r] = << [fn |-> OwnPipelineFn(req[r].ep), arg |-> req[r].body] >>

C6_Witness ==
    \E r \in AllReqs :
        /\ RaisedFor(r) /\ req[r].ep = "/product-recommendations"
        /\ calls[r] = << [fn |-> "product_recommendation", arg |-> Text("hot flashes")] >>

(***************************************************************************)
(* C7                                                                      *)
(***************************************************************************)
WellFormedSuccess(r) ==
    /\ resp[r].kind = "success"
    /\ resp[r].fields = ResponseSchema(req[r].ep)

\* C7 as stated: every finished request, valid or not, ends as a success
\* body with every field of the response schema or as an error body whose
\* detail is one text string.
C7_Original ==
    \A r \in AllReqs :
        Done(r) => \/ WellFormedSuccess(r)
                   \/ resp[r].kind = "error" /\ resp[r].detail.t = "text"

\* C7 (amended): every finished request ends as a success body with every
\* field of the response schema, or as a single error body: for a valid body
\* HTTP 500 with a detail that is one text string, for an invalid body
\* HTTP 422 with a detail that is a list of validation errors.  No request
\* ends as an unhandled failure.
C7_SuccessOrSingleError ==
    \A r \in AllReqs :
        Done(r) =>
            /\ resp[r].kind \in {"success", "error"}
            /\ resp[r].kind = "success" => WellFormedSuccess(r) /\ ValidRequest(r)
            /\ resp[r].kind = "error" =>
                   IF ValidRequest(r)
                   THEN resp[r].status = 500 /\ resp[r].detail.t = "text"
                   ELSE resp[r].status = 422 /\ resp[r].detail.t = "list"

C7_Witness ==
    \E r \in AllReqs :
        /\ Done(r) /\ InvalidRequest(r) /\ req[r].body.t = "missing"
        /\ resp[r].kind = "error" /\ resp[r].detail.t = "list"

(***************************************************************************)
(* C9                                                                      *)
(***************************************************************************)
\* A result with every expected key from which the response record cannot
\* be built: response is not text, retrieved_documents has no length, or
\* the optional list is present and not a sequence of text.
BuildFault(r) ==
    /\ ReturnedFor(r)
    /\ ~MissingExpectedKey(r)
    /\ ~(TextAndDocs(r) /\ OptionalWellFormed(r))

BuildFaultTexts(ep) ==
    {LenTypeError.desc, ValidationError(1, ResponseModel(ep)).desc,
     ValidationError(2, ResponseModel(ep)).desc}

\* C9 as stated: a fault that arises while the response record is built is
\* not converted into the endpoint's prefixed HTTP 500; it leaves the
\* handler as an unhandled failure.
C9_Original ==
    \A r \in AllReqs : BuildFault(r) => resp[r].kind = "unhandled"

\* C9 (amended): a fault that arises while the response record is built is
\* raised inside the handler's try block, so it is converted like a pipeline
\* fault: HTTP 500 with the endpoint's prefix followed by the fault's text.
C9_BuildFaultBecomes500 ==
    \A r \in AllReqs :
        BuildFault(r) => \E d \in BuildFaultTexts(req[r].ep) : Prefixed500(r, d)

C9_Witness ==
    \E r \in AllReqs :
        /\ BuildFault(r) /\ req[r].ep = "/affirmations"
        /\ outcome[r].result.response.t = "text"
        /\ outcome[r].result.affirmations.t = "null"
        /\ resp[r].detail = Text("Error processing affirmation request: "
                                   \o "1 validation error for AffirmationResponse")

(***************************************************************************)
(* C8                                                                      *)
(***************************************************************************)
\* C8: every GET /health answers with status "healthy", whatever the POST
\* requests are doing and whatever their pipeline calls did, and serving it
\* makes no pipeline call and touches no request.
C8_HealthAlwaysHealthy ==
    [][healthCount' # healthCount =>
          /\ health'.status = "healthy"
          /\ UNCHANGED <<pc, req, calls, outcome, resp>>]_vars

C8_Witness ==
    /\ healthCount > 0
    /\ health.status = "healthy"
    /\ probeCtx.calling /\ probeCtx.faulted

(***************************************************************************)
(* C10                                                                     *)
(***************************************************************************)
\* The response of a finished request is built from its own body and its
\* own pipeline outcome.
OwnResponse(r) ==
    Done(r) =>
        CASE resp[r].kind = "success" ->
               /\ ReturnedFor(r) /\ SuccessWithCount(r)
               /\ resp[r].list = IF req[r].ep \in ListEndpoints
                                 THEN Get(outcome[r].result, OptionalKey(req[r].ep)).l
                                 ELSE <<>>
          [] resp[r].kind = "error" /\ resp[r].status = 422 -> InvalidRequest(r)
          [] resp[r].kind = "error" /\ resp[r].status # 422 ->
               \/ RaisedFor(r) /\ Prefixed500(r, outcome[r].fault.desc)
               \/ ReturnedFor(r) /\ ~(TextAndDocs(r) /\ OptionalWellFormed(r))
          [] OTHER -> FALSE

\* A step leaves untouched every request whose handler did not move.
Isolated ==
    \A r \in AllReqs :
        pc'[r] = pc[r] =>
            /\ req'[r] = req[r] /\ calls'[r] = calls[r]
            /\ outcome'[r] = outcome[r] /\ resp'[r] = resp[r]

\* C10: under any interleaving, a request's response is determined by its
\* own body and its own pipeline outcome, and a step of one request (a fault
\* included) changes nothing of another request.
C10_RequestsIsolated ==
    [][Isolated /\ \A r \in AllReqs : OwnResponse(r)']_vars

C10_Witness ==
    \E r, s \in AllReqs :
        /\ r # s /\ req[r].ep = req[s].ep
        /\ RaisedFor(s) /\ resp[s].status = 500
        /\ ReturnedFor(r) /\ resp[r].kind = "success"
        /\ resp[r].response = "It is..." /\ resp[r].count = 1

====
